---- MODULE Spec2Model ----
(***************************************************************************)
(* kube-icinga reconciliation core: the Node, Volume and Ingress watch     *)
(* loops (src/kube/node.ts, volume.ts, ingress.ts), the translators they   *)
(* dispatch to, and the Worker Node Registry shared between them.          *)
(*                                                                         *)
(* JavaScript strings are sequences of tokens (<<"volume", "-", "a">>), so *)
(* that escaping and concatenation are computed and not assumed.  null and *)
(* undefined are the one-token sentinels Null and Undefined.               *)
(***************************************************************************)
EXTENDS Integers, Sequences, FiniteSets, TLC

VARIABLES
  nodeOpts,        \* Node.options          (node.ts:24,32)
  volOpts,         \* Volume.options        (volume.ts:43,53)
  ingOpts,         \* Ingress.options       (ingress.ts:25-32,43)
  nodes,           \* Node.nodes, the Worker Node Registry (node.ts:23)
  started,         \* per loop: kubeListener has been called by the entry point
  live,            \* per loop: the loop holds an open source stream
  dataHandlers,    \* per loop: 'data' listeners on the emitter it listens to
  finishHandlers,  \* per loop: 'finish' listeners on the emitter it listens to
  jsonEnded,       \* Ingress.jsonStream has been ended by a piped source
  delivered,       \* per node name: schedulability in the object last delivered
  pending,         \* the translation suspended at an awaited facade call
  monitoring,      \* hosts and services of the monitoring system, where observed
  last             \* what the last step did: event, dispatches, facade calls

vars == <<nodeOpts, volOpts, ingOpts, nodes, started, live, dataHandlers,
          finishHandlers, jsonEnded, delivered, pending, monitoring, last>>

----------------------------------------------------------------------------
(* Bounds *)

\* the registry only grows: stop accepting Node events once it holds this many
MaxNodes == 2

----------------------------------------------------------------------------
(* JavaScript values *)

Null == <<"<null>">>
Undefined == <<"<undefined>">>

\* JavaScript truthiness of a string-or-null value
Truthy(s) == s \notin {Null, Undefined, <<>>}

EmptyDef == [f \in {} |-> <<>>]

\* Object.assign(a, b): fields of b override fields of a
ObjectAssign(a, b) ==
  [f \in (DOMAIN a) \cup (DOMAIN b) |-> IF f \in DOMAIN b THEN b[f] ELSE a[f]]

\* Array.prototype.join(sep) over a sequence of strings
RECURSIVE Join(_, _)
Join(parts, sep) ==
  IF parts = <<>> THEN <<>>
  ELSE IF Len(parts) = 1 THEN Head(parts)
  ELSE Head(parts) \o sep \o Join(Tail(parts), sep)

Range(s) == {s[i] : i \in DOMAIN s}

----------------------------------------------------------------------------
(* Naming & Template Helper (abstract.resource) *)

EscapeToken(t) == IF t \in {"/", "\\"} THEN "-" ELSE t

\* escapeName(raw): every path separator becomes '-'
escapeName(raw) == [i \in DOMAIN raw |-> EscapeToken(raw[i])]

\* getAnnotations(object): the annotation mapping, empty when absent
getAnnotations(definition) == definition.annotations

\* annotations[key] of a JavaScript object: undefined when the key is absent
Lookup(m, key) == IF key \in DOMAIN m THEN m[key] ELSE Undefined

\* prepareResource(object): the annotation-driven override fields
prepareResource(definition) == definition.override

\* prepareTemplates(object): the templates named by the template annotation
prepareTemplates(definition) ==
  IF "kube-icinga/template" \in DOMAIN getAnnotations(definition)
  THEN <<getAnnotations(definition)["kube-icinga/template"]>>
  ELSE <<>>

----------------------------------------------------------------------------
(* Monitoring Client Facade calls *)

FacadeOps == {"applyHost", "applyService", "applyServiceGroup", "deleteHost",
              "deleteServicesByFilter"}

\* which facade operation, if any, rejects while one event is handled: one of
\* the operations the listeners call for it
FailChoices(calls) == {"none"} \cup {calls[i].op : i \in DOMAIN calls}

Call(op, host, name, def, templates) ==
  [op |-> op, host |-> host, name |-> name, def |-> def, templates |-> templates]

\* what running part of a translation produced: the registry, the facade calls
\* issued, whether the promise rejected (error thrown or awaited call rejected),
\* and the rejections nobody handles
Result(nds, calls, rejected, unhandled) ==
  [nodes |-> nds, calls |-> calls, rejected |-> rejected, unhandled |-> unhandled]

----------------------------------------------------------------------------
(* Watch events *)

Kinds == {"Node", "Volume", "Ingress"}

EventTypes == {"ADDED", "MODIFIED", "DELETED"}

\* the kind each loop expects in object.kind
ObjectKind(k) ==
  CASE k = "Node" -> "Node"
    [] k = "Volume" -> "PersistentVolume"
    [] k = "Ingress" -> "Ingress"

NodeNames == {<<"n1">>, <<"n2">>}

NodeObjects ==
  [kind : {"Node"}, name : NodeNames, unschedulable : BOOLEAN]

\* an object of another kind arriving on a watch stream
ForeignObject == [kind |-> "Pod", name |-> <<"p">>]

NodeEvents ==
  [type : EventTypes, object : NodeObjects]
    \cup {[type |-> "ADDED", object |-> ForeignObject]}

\* schedulable nodes joining the cluster
NodeJoinEvents ==
  {e \in [type : {"ADDED"}, object : NodeObjects] : ~e.object.unschedulable}

\* per-object override fields an annotation can carry
Overrides == {EmptyDef, "display_name" :> <<"O">>}

\* metadata.name / metadata.uid of the volumes on the stream; one has no name
VolumeIdentities ==
  {<<<<"a">>, <<"u1">>>>, <<<<"b", "/", "c">>, <<"u2">>>>, <<Undefined, <<"u3">>>>}

VolumeObject(id, ann, hasClaimRef, claimNamespace, ov) ==
  [kind |-> "PersistentVolume", name |-> id[1], uid |-> id[2],
   annotations |-> ann, hasClaimRef |-> hasClaimRef,
   claimNamespace |-> claimNamespace, override |-> ov]

\* a bound volume with nothing special about it
PlainVolume == VolumeObject(<<<<"a">>, <<"u1">>>>, EmptyDef, TRUE, <<"ns">>, EmptyDef)

\* every identity with and without the host annotation; a volume without
\* claimRef, one whose claimRef has no namespace, one with override fields
VolumeObjects ==
  {VolumeObject(id, ann, TRUE, <<"ns">>, EmptyDef) :
      id \in VolumeIdentities,
      ann \in {EmptyDef, "kube-icinga/host" :> <<"h">>}}
    \cup {VolumeObject(<<<<"a">>, <<"u1">>>>, EmptyDef, cr[1], cr[2], EmptyDef) :
            cr \in {<<FALSE, Undefined>>, <<TRUE, Undefined>>}}
    \cup {VolumeObject(<<<<"a">>, <<"u1">>>>, EmptyDef, TRUE, <<"ns">>, ov) :
            ov \in Overrides}

VolumeEvents ==
  [type : EventTypes, object : VolumeObjects]
    \cup {[type |-> "ADDED", object |-> ForeignObject]}

VolumeSampleEvents == [type : EventTypes, object : {PlainVolume}]

\* rules of the ingresses on the stream: a rule whose one path has no 'path'
\* field, a rule with two paths, and a host-only rule (no 'http' section)
RuleDefaultPath == [host |-> <<"h1">>, hasHttp |-> TRUE, paths |-> <<Undefined>>]
RuleTwoPaths ==
  [host |-> <<"h2">>, hasHttp |-> TRUE, paths |-> <<<<"/", "x">>, <<"/", "y">>>>]
RuleHostOnly == [host |-> <<"h3">>, hasHttp |-> FALSE, paths |-> <<>>]

IngressRuleSets ==
  {<<>>, <<RuleDefaultPath>>, <<RuleTwoPaths>>, <<RuleDefaultPath, RuleTwoPaths>>,
   <<RuleHostOnly, RuleDefaultPath>>, <<RuleDefaultPath, RuleHostOnly>>}

IngressObject(tls, rules, ov) ==
  [kind |-> "Ingress", name |-> <<"web">>, namespace |-> <<"ns">>,
   annotations |-> EmptyDef, tls |-> tls, rules |-> rules, override |-> ov]

\* an ingress with one rule and one path, without TLS
PlainIngress == IngressObject(FALSE, <<RuleDefaultPath>>, EmptyDef)

\* every rule set with and without TLS; one-rule ingresses with override fields
IngressObjects ==
  {IngressObject(tls, rules, EmptyDef) : tls \in BOOLEAN, rules \in IngressRuleSets}
    \cup {IngressObject(tls, <<RuleDefaultPath>>, ov) :
            tls \in BOOLEAN, ov \in Overrides}

IngressEvents ==
  [type : EventTypes, object : IngressObjects]
    \cup {[type |-> "ADDED", object |-> ForeignObject]}

IngressSampleEvents == [type : EventTypes, object : {PlainIngress}]

NoEvent == [type |-> "none", object |-> [kind |-> "none"]]

----------------------------------------------------------------------------
(* Options *)

HostDefinitions == {EmptyDef, "display_name" :> <<"X">>}

\* hostDefinition and serviceDefinition: both empty, or both set
DefinitionPairs ==
  {<<EmptyDef, EmptyDef>>,
   <<"display_name" :> <<"X">>,
     ("display_name" :> <<"S">>) @@ ("check_command" :> <<"cfg">>)>>}

NodeDefaultOptions ==
  [discover |-> TRUE, hostDefinition |-> EmptyDef, hostTemplates |-> <<>>]

NodeOptionSets ==
  [discover : BOOLEAN, hostDefinition : HostDefinitions, hostTemplates : {<<>>}]

VolumeDefaultOptions ==
  [discover |-> TRUE, applyServices |-> TRUE, attachToNodes |-> FALSE,
   hostName |-> <<"kubernetes-volumes">>, hostDefinition |-> EmptyDef,
   serviceDefinition |-> EmptyDef, serviceGroupDefinition |-> EmptyDef,
   hostTemplates |-> <<>>, serviceTemplates |-> <<>>]

VolumeOptionSets ==
  {[discover |-> d, applyServices |-> s, attachToNodes |-> a, hostName |-> h,
    hostDefinition |-> defs[1], serviceDefinition |-> defs[2],
    serviceGroupDefinition |-> EmptyDef, hostTemplates |-> <<>>,
    serviceTemplates |-> <<>>] :
      d \in BOOLEAN, s \in BOOLEAN, a \in BOOLEAN,
      h \in {Null, <<"kubernetes-volumes">>}, defs \in DefinitionPairs}

IngressDefaultOptions ==
  [applyServices |-> TRUE, attachToNodes |-> FALSE, hostDefinition |-> EmptyDef,
   serviceDefinition |-> EmptyDef, hostTemplates |-> <<>>,
   serviceTemplates |-> <<>>]

\* the defaults carry no 'discover'; the options passed to the constructor may
IngressOptionSets ==
  {[discover |-> d, applyServices |-> s, attachToNodes |-> a,
    hostDefinition |-> defs[1], serviceDefinition |-> defs[2],
    hostTemplates |-> <<>>, serviceTemplates |-> <<>>] :
      d \in BOOLEAN, s \in BOOLEAN, a \in BOOLEAN, defs \in DefinitionPairs}

----------------------------------------------------------------------------
(* Node translator (node.ts) *)

\* Node.prepareObject: push a node that is not unschedulable, apply its host
Node_prepareObject(definition, nds, fail) ==
  Result(IF ~definition.unschedulable THEN Append(nds, definition.name) ELSE nds,
         <<Call("applyHost", definition.name, <<>>,
                ObjectAssign(("display_name" :> definition.name)
                               @@ ("address" :> definition.name)
                               @@ ("vars._kubernetes" :> <<"true">>)
                               @@ ("vars.kubernetes" :> definition)
                               @@ ("check_command" :> <<"ping">>),
                             nodeOpts.hostDefinition),
                nodeOpts.hostTemplates)>>,
         fail = "applyHost", 0)

\* the mutation: a translation resumed after an await fans out over the
\* registry as it stood when its event arrived
getWorkerNodes_atArrival ==
  IF pending.phase = "awaiting" THEN pending.registry ELSE nodes

\* Node.getWorkerNodes
getWorkerNodes == nodes

\* the mutation: deletion also drops the node from the registry
Node_deleteObject_removing(definition, nds, fail) ==
  Result(SelectSeq(nds, LAMBDA n : n # definition.name),
         <<Call("deleteHost", definition.name, <<>>, EmptyDef, <<>>)>>,
         fail = "deleteHost", 0)

\* Node.deleteObject: delete the host, the registry is left alone
Node_deleteObject(definition, nds, fail) ==
  Result(nds, <<Call("deleteHost", definition.name, <<>>, EmptyDef, <<>>)>>,
         fail = "deleteHost", 0)

----------------------------------------------------------------------------
(* Volume translator (volume.ts) *)

\* Volume.applyHost
Volume_applyHost(name, address, metadata, templates) ==
  Call("applyHost", name, <<>>,
       ObjectAssign(("display_name" :> name)
                      @@ ("address" :> address)
                      @@ ("check_command" :> <<"dummy">>)
                      @@ ("vars.dummy_state" :> <<"0">>)
                      @@ ("vars._kubernetes" :> <<"true">>)
                      @@ ("vars.kubernetes" :> metadata),
                    volOpts.hostDefinition),
       volOpts.hostTemplates)

\* Volume.applyService: one call per registry entry, or one for the host; the
\* promises of icinga.applyService are neither awaited nor returned
Volume_applyService(host, name, definition, templates, nds) ==
  IF volOpts.attachToNodes
  THEN [i \in DOMAIN nds |->
          Call("applyService", nds[i], name,
               ObjectAssign(definition, "host_name" :> nds[i]), templates)]
  ELSE <<Call("applyService", host, name,
              ObjectAssign(definition, "host_name" :> host), templates)>>

\* Volume.getHostname
Volume_getHostname(definition) ==
  IF Truthy(Lookup(getAnnotations(definition), "kube-icinga/host"))
  THEN Lookup(getAnnotations(definition), "kube-icinga/host")
  ELSE IF volOpts.hostName = Null /\ Truthy(definition.name)
  THEN escapeName(Join(<<<<"volume">>, definition.name>>, <<"-">>))
  ELSE volOpts.hostName

\* lines 102-126 of Volume.prepareObject: service group, then the service
Volume_prepareServices(definition, hostname, hostCalls, nds, fail) ==
  IF ~definition.hasClaimRef
  THEN Result(nds, hostCalls, TRUE, 0)   \* TypeError reading claimRef.namespace
  ELSE
    LET ns == definition.claimNamespace
        groups == IF Truthy(ns) THEN <<ns>> ELSE <<>>
        groupCalls ==
          IF Truthy(ns)
          THEN <<Call("applyServiceGroup", <<>>, ns,
                      ObjectAssign("vars._kubernetes" :> <<"true">>,
                                   volOpts.serviceGroupDefinition), <<>>)>>
          ELSE <<>>
        templates == volOpts.serviceTemplates \o prepareTemplates(definition)
        addition ==
          ObjectAssign(
            ObjectAssign(("check_command" :> <<"dummy">>)
                           @@ ("display_name" :> definition.name \o <<":volume">>)
                           @@ ("vars._kubernetes" :> <<"true">>)
                           @@ ("vars.kubernetes" :> definition)
                           @@ ("groups" :> groups),
                         volOpts.serviceDefinition),
            prepareResource(definition))
        serviceCalls ==
          Volume_applyService(hostname, escapeName(definition.name), addition,
                              templates, nds)
    IN IF groupCalls # <<>> /\ fail = "applyServiceGroup"
       THEN Result(nds, hostCalls \o groupCalls, TRUE, 0)
       ELSE Result(nds, hostCalls \o groupCalls \o serviceCalls, FALSE,
                   IF fail = "applyService" THEN Len(serviceCalls) ELSE 0)

\* Volume.prepareObject
Volume_prepareObject(definition, nds, fail) ==
  LET hostname == Volume_getHostname(definition)
      hostCalls ==
        IF ~volOpts.attachToNodes
        THEN <<Volume_applyHost(hostname, hostname, definition,
                                volOpts.hostTemplates)>>
        ELSE <<>>
  IN IF hostCalls # <<>> /\ fail = "applyHost"
     THEN Result(nds, hostCalls, TRUE, 0)
     ELSE IF ~Truthy(definition.name)
     THEN Result(nds, hostCalls, TRUE, 0)   \* resource name is required
     ELSE IF ~volOpts.applyServices
     THEN Result(nds, hostCalls, FALSE, 0)
     ELSE Volume_prepareServices(definition, hostname, hostCalls, nds, fail)

\* the filter string of deleteServicesByFilter
UidFilter(uid) ==
  <<"service.vars.kubernetes.metadata.uid==", "\"">> \o uid \o <<"\"">>

\* the mutation: deletion keyed off the object's annotation, not the option
Volume_deleteObject_byAnnotation(definition, nds, fail) ==
  IF Truthy(Lookup(getAnnotations(definition), "kube-icinga/host"))
  THEN Result(nds,
              <<Call("deleteHost", Volume_getHostname(definition), <<>>,
                     EmptyDef, <<>>)>>,
              fail = "deleteHost", 0)
  ELSE Result(nds,
              <<Call("deleteServicesByFilter", <<>>, UidFilter(definition.uid),
                     EmptyDef, <<>>)>>,
              fail = "deleteServicesByFilter", 0)

\* Volume.deleteObject
Volume_deleteObject(definition, nds, fail) ==
  IF volOpts.hostName = Null
  THEN Result(nds,
              <<Call("deleteHost", Volume_getHostname(definition), <<>>,
                     EmptyDef, <<>>)>>,
              fail = "deleteHost", 0)
  ELSE Result(nds,
              <<Call("deleteServicesByFilter", <<>>, UidFilter(definition.uid),
                     EmptyDef, <<>>)>>,
              fail = "deleteServicesByFilter", 0)

----------------------------------------------------------------------------
(* Ingress translator (ingress.ts) *)

\* Ingress.applyHost
Ingress_applyHost(name, address, metadata, templates) ==
  Call("applyHost", name, <<>>,
       ObjectAssign(("display_name" :> name)
                      @@ ("address" :> address)
                      @@ ("check_command" :> <<"dummy">>)
                      @@ ("vars.dummy_state" :> <<"0">>)
                      @@ ("vars._kubernetes" :> <<"true">>)
                      @@ ("vars.kubernetes" :> metadata),
                    ingOpts.hostDefinition),
       ingOpts.hostTemplates)

\* Ingress.applyService: one call per registry entry, or one for the host
Ingress_applyService(host, name, definition, templates, nds) ==
  IF ingOpts.attachToNodes
  THEN [i \in DOMAIN nds |->
          Call("applyService", nds[i], name,
               ObjectAssign(definition, "host_name" :> nds[i]), templates)]
  ELSE <<Call("applyService", host, name,
              ObjectAssign(definition, "host_name" :> host), templates)>>

\* the object 'definition' as Ingress.applyService leaves it: host_name is the
\* last host it was applied to
AfterApplyService(host, definition, nds) ==
  IF ingOpts.attachToNodes
  THEN IF nds = <<>> THEN definition
       ELSE ObjectAssign(definition, "host_name" :> nds[Len(nds)])
  ELSE ObjectAssign(definition, "host_name" :> host)

\* body of the inner loop (lines 96-120): the services of one rule-path pair
Ingress_pairServices(definition, spec, path, hostname, service, templates, nds) ==
  LET base == IF Truthy(path) THEN path ELSE <<"/">>
      addition ==
        ObjectAssign(
          ObjectAssign(("check_command" :> <<"http">>)
                         @@ ("display_name" :> spec.host \o base \o <<":http">>)
                         @@ ("vars._kubernetes" :> <<"true">>)
                         @@ ("vars.kubernetes" :> definition)
                         @@ ("vars.http_address" :> spec.host)
                         @@ ("vars.http_vhost" :> spec.host)
                         @@ ("vars.http_path" :> base)
                         @@ ("vars.http_ignore_body" :> <<"true">>)
                         @@ ("groups" :> <<definition.namespace>>),
                       ingOpts.serviceDefinition),
          service)
      httpCalls ==
        Ingress_applyService(
          hostname, escapeName(Join(<<spec.host, <<"http">>, base>>, <<"-">>)),
          addition, templates, nds)
      applied == AfterApplyService(hostname, addition, nds)
      tlsAddition ==
        ObjectAssign(applied,
                     ("display_name" :> applied["display_name"] \o <<"s">>)
                       @@ ("vars.http_ssl" :> <<"true">>))
      httpsCalls ==
        Ingress_applyService(
          hostname, escapeName(Join(<<spec.host, <<"https">>, base>>, <<"-">>)),
          tlsAddition, templates, nds)
  IN IF definition.tls THEN httpCalls \o httpsCalls ELSE httpCalls

\* the inner loop (line 95) over the paths of one rule
RECURSIVE Ingress_pathLoop(_, _, _, _, _, _, _)
Ingress_pathLoop(definition, spec, paths, hostname, service, templates, nds) ==
  IF paths = <<>> THEN <<>>
  ELSE Ingress_pairServices(definition, spec, Head(paths), hostname, service,
                            templates, nds)
         \o Ingress_pathLoop(definition, spec, Tail(paths), hostname, service,
                             templates, nds)

\* the outer loop (line 94) over the rules: reading spec.http.paths of a rule
\* without 'http' throws and ends the translation
RECURSIVE Ingress_ruleLoop(_, _, _, _, _, _)
Ingress_ruleLoop(definition, rules, hostname, service, templates, nds) ==
  IF rules = <<>> THEN [calls |-> <<>>, rejected |-> FALSE]
  ELSE IF ~Head(rules).hasHttp THEN [calls |-> <<>>, rejected |-> TRUE]
  ELSE LET here == Ingress_pathLoop(definition, Head(rules), Head(rules).paths,
                                    hostname, service, templates, nds)
           rest == Ingress_ruleLoop(definition, Tail(rules), hostname, service,
                                    templates, nds)
       IN [calls |-> here \o rest.calls, rejected |-> rest.rejected]

\* Ingress.prepareObject
Ingress_prepareObject(definition, nds, fail) ==
  LET hostname ==
        escapeName(Join(<<<<"ingress">>, definition.namespace, definition.name>>,
                        <<"-">>))
      hostCalls ==
        IF ~ingOpts.attachToNodes
        THEN <<Ingress_applyHost(hostname, definition.name, definition,
                                 ingOpts.hostTemplates)>>
        ELSE <<>>
      service == prepareResource(definition)
      templates == ingOpts.serviceTemplates \o prepareTemplates(definition)
      groupCalls ==
        <<Call("applyServiceGroup", <<>>, definition.namespace, EmptyDef, <<>>)>>
      loop == Ingress_ruleLoop(definition, definition.rules, hostname, service,
                               templates, nds)
  IN IF hostCalls # <<>> /\ fail = "applyHost"
     THEN Result(nds, hostCalls, TRUE, 0)
     ELSE IF ~ingOpts.applyServices
     THEN Result(nds, hostCalls, FALSE, 0)
     ELSE IF fail = "applyServiceGroup"
     THEN Result(nds, hostCalls \o groupCalls, TRUE, 0)
     ELSE Result(nds, hostCalls \o groupCalls \o loop.calls, loop.rejected,
                 IF fail = "applyService" THEN Len(loop.calls) ELSE 0)

----------------------------------------------------------------------------
(* Dispatch (abstract.resource handleResource, and the 'data' listeners) *)

\* what one run of a 'data' listener did: the registry, the facade calls, the
\* rejections caught and logged, the rejections left unhandled
Outcome(nds, calls, caught, unhandled) ==
  [nodes |-> nds, calls |-> calls, caught |-> caught, unhandled |-> unhandled]

Caught(r) == Outcome(r.nodes, r.calls, IF r.rejected THEN 1 ELSE 0, r.unhandled)

prepareObject(k, definition, nds, fail) ==
  IF k = "Node" THEN Node_prepareObject(definition, nds, fail)
  ELSE IF k = "Volume" THEN Volume_prepareObject(definition, nds, fail)
  ELSE Ingress_prepareObject(definition, nds, fail)

deleteObject(k, definition, nds, fail) ==
  IF k = "Node" THEN Node_deleteObject(definition, nds, fail)
  ELSE Volume_deleteObject(definition, nds, fail)

\* handleResource(kind, event, options): drop a foreign object, ignore
\* ADDED/MODIFIED when discover is false, catch and log a failed translation
handleResource(k, event, options, nds, fail) ==
  IF event.object.kind # ObjectKind(k) THEN Outcome(nds, <<>>, 0, 0)
  ELSE IF event.type \in {"ADDED", "MODIFIED"}
  THEN IF ~options.discover THEN Outcome(nds, <<>>, 0, 0)
       ELSE Caught(prepareObject(k, event.object, nds, fail))
  ELSE Caught(deleteObject(k, event.object, nds, fail))

\* the mutation: MODIFIED events are translated like ADDED events
Node_onData_handlingModified(event, nds, fail) ==
  handleResource("Node", event, nodeOpts, nds, fail)

\* the 'data' listener of Node.kubeListener (lines 76-84)
Node_onData(event, nds, fail) ==
  IF event.type = "MODIFIED" THEN Outcome(nds, <<>>, 0, 0)
  ELSE handleResource("Node", event, nodeOpts, nds, fail)

\* the 'data' listener of Volume.kubeListener (lines 162-165)
Volume_onData(event, nds, fail) ==
  handleResource("Volume", event, volOpts, nds, fail)

\* the mutation: recreate first, then delete
Ingress_onData_applyFirst(event, nds, fail) ==
  IF event.object.kind # "Ingress" THEN Outcome(nds, <<>>, 0, 0)
  ELSE
    LET deleteCalls ==
          IF event.type \in {"MODIFIED", "DELETED"}
          THEN <<Call("deleteHost", event.object.name, <<>>, EmptyDef, <<>>)>>
          ELSE <<>>
        prepared == Caught(Ingress_prepareObject(event.object, nds, fail))
    IN IF event.type \in {"ADDED", "MODIFIED"}
       THEN Outcome(prepared.nodes, prepared.calls \o deleteCalls,
                    prepared.caught,
                    prepared.unhandled
                      + (IF deleteCalls # <<>> /\ fail = "deleteHost" THEN 1 ELSE 0))
       ELSE Outcome(nds, deleteCalls, 0,
                    IF fail = "deleteHost" THEN 1 ELSE 0)

\* the 'data' listener of Ingress.kubeListener (lines 133-150): the awaited
\* deleteHost is inside no try and no catch; prepareObject has a catch
Ingress_onData(event, nds, fail) ==
  IF event.object.kind # "Ingress" THEN Outcome(nds, <<>>, 0, 0)
  ELSE
    LET deleteCalls ==
          IF event.type \in {"MODIFIED", "DELETED"}
          THEN <<Call("deleteHost", event.object.name, <<>>, EmptyDef, <<>>)>>
          ELSE <<>>
        prepared == Caught(Ingress_prepareObject(event.object, nds, fail))
    IN IF deleteCalls # <<>> /\ fail = "deleteHost"
       THEN Outcome(nds, deleteCalls, 0, 1)
       ELSE IF event.type \in {"ADDED", "MODIFIED"}
       THEN Outcome(prepared.nodes, deleteCalls \o prepared.calls,
                    prepared.caught, prepared.unhandled)
       ELSE Outcome(nds, deleteCalls, 0, 0)

onData(k, event, nds, fail) ==
  IF k = "Node" THEN Node_onData(event, nds, fail)
  ELSE IF k = "Volume" THEN Volume_onData(event, nds, fail)
  ELSE Ingress_onData(event, nds, fail)

\* two listeners run one after the other: the second sees the registry the
\* first left
Both(first, rest) ==
  Outcome(rest.nodes, first.calls \o rest.calls, first.caught + rest.caught,
          first.unhandled + rest.unhandled)

\* emitter.emit('data', event) with n listeners registered: each one runs
RECURSIVE Emit(_, _, _, _, _)
EmitRest(k, event, fail, n, first) ==
  Both(first, Emit(k, event, first.nodes, fail, n))

Emit(k, event, nds, fail, n) ==
  IF n = 0 THEN Outcome(nds, <<>>, 0, 0)
  ELSE EmitRest(k, event, fail, n - 1, onData(k, event, nds, fail))

----------------------------------------------------------------------------
(* The monitoring system behind the facade *)

\* metadata.uid of the object a definition mirrors in vars.kubernetes
UidOf(def) ==
  IF "uid" \in DOMAIN def["vars.kubernetes"]
  THEN def["vars.kubernetes"].uid
  ELSE Undefined

Unobserved == [observed |-> FALSE, hosts |-> {}, services |-> {}]

EmptyMonitoring == [observed |-> TRUE, hosts |-> {}, services |-> {}]

\* the effect of one facade call: deleteHost removes the host with all its
\* services, deleteServicesByFilter every service whose recorded metadata.uid
\* matches; a call that rejects has no effect.  A host is recorded with the
\* uid of the object it was applied for
ApplyCall(m, c, fail) ==
  IF c.op = fail THEN m
  ELSE IF c.op = "applyHost"
  THEN [m EXCEPT !.hosts = @ \cup {[name |-> c.host, uid |-> UidOf(c.def)]}]
  ELSE IF c.op = "applyService"
  THEN [m EXCEPT !.services =
          @ \cup {[host |-> c.host, name |-> c.name, uid |-> UidOf(c.def)]}]
  ELSE IF c.op = "deleteHost"
  THEN [m EXCEPT !.hosts = {h \in @ : h.name # c.host},
                 !.services = {sv \in @ : sv.host # c.host}]
  ELSE IF c.op = "deleteServicesByFilter"
  THEN [m EXCEPT !.services = {sv \in @ : UidFilter(sv.uid) # c.name}]
  ELSE m

RECURSIVE ApplyCalls(_, _, _)
ApplyCalls(m, calls, fail) ==
  IF calls = <<>> THEN m
  ELSE ApplyCalls(ApplyCall(m, Head(calls), fail), Tail(calls), fail)

Observe(m, calls, fail) ==
  IF m.observed THEN ApplyCalls(m, calls, fail) ELSE m

----------------------------------------------------------------------------
(* Watch loops (kubeListener) *)

\* no translation is suspended
NoPending ==
  [phase |-> "idle", loop |-> "none", event |-> NoEvent, registry |-> <<>>]

\* how many 'data' listeners an event of the loop's current source stream
\* reaches.  Node and Volume listen on the source stream itself; Ingress pipes
\* the source into the one jsonStream it was constructed with and listens on
\* that, and a stream that has been ended accepts no further write
DispatchCount(k) ==
  IF k = "Ingress" /\ jsonEnded THEN 0 ELSE dataHandlers[k]

Step(k, step, event, fail, dispatches, out, provCalls, threw) ==
  [loop |-> k, step |-> step, event |-> event, fail |-> fail,
   dispatches |-> dispatches,
   calls |-> out.calls, caught |-> out.caught, unhandled |-> out.unhandled,
   provCalls |-> provCalls, providerThrew |-> threw]

NoOutcome == Outcome(<<>>, <<>>, 0, 0)

\* one run of kubeListener(provider) on the loop state st; ok: provider()
\* returned a stream (otherwise it threw, which is caught and logged)
kubeListener(k, st, ok) ==
  IF ~ok THEN [st EXCEPT !.live = FALSE]
  ELSE IF k = "Ingress"
  THEN [live |-> TRUE, dataHandlers |-> st.dataHandlers + 1,
        finishHandlers |-> st.finishHandlers + 1]
  ELSE [live |-> TRUE, dataHandlers |-> 1, finishHandlers |-> 1]

\* emit('finish') with n listeners registered: each one runs kubeListener
RECURSIVE EmitFinish(_, _, _, _)
EmitFinish(k, st, ok, n) ==
  IF n = 0 THEN st ELSE EmitFinish(k, kubeListener(k, st, ok), ok, n - 1)

LoopState(k) ==
  [live |-> live[k], dataHandlers |-> dataHandlers[k],
   finishHandlers |-> finishHandlers[k]]

SetLoopState(k, st) ==
  /\ live' = [live EXCEPT ![k] = st.live]
  /\ dataHandlers' = [dataHandlers EXCEPT ![k] = st.dataHandlers]
  /\ finishHandlers' = [finishHandlers EXCEPT ![k] = st.finishHandlers]

\* the entry point calls kubeListener(provider)
Start(k) ==
  /\ ~started[k]
  /\ \E ok \in BOOLEAN :
       /\ SetLoopState(k, kubeListener(k, LoopState(k), ok))
       /\ last' = Step(k, "start", NoEvent, "none", 0, NoOutcome, 1, ~ok)
  /\ started' = [started EXCEPT ![k] = TRUE]
  /\ UNCHANGED <<nodeOpts, volOpts, ingOpts, nodes, jsonEnded, delivered,
                 pending, monitoring>>

\* the state after the listeners of one event have run
Delivered(k, event, fail, out) ==
  /\ Len(out.nodes) <= MaxNodes
  /\ nodes' = out.nodes
  /\ delivered' =
       IF k = "Node" /\ event.object.kind = "Node"
       THEN [delivered EXCEPT ![event.object.name] =
               IF event.object.unschedulable THEN "unschedulable"
               ELSE "schedulable"]
       ELSE delivered
  /\ monitoring' = Observe(monitoring, out.calls, fail)
  /\ last' = Step(k, "data", event, fail, DispatchCount(k), out, 0, FALSE)

\* the source stream delivers one event
Data(k, events) ==
  /\ live[k]
  /\ \E event \in events :
       \E fail \in FailChoices(Emit(k, event, nodes, "none", DispatchCount(k)).calls) :
         Delivered(k, event, fail,
                   Emit(k, event, nodes, fail, DispatchCount(k)))
  /\ UNCHANGED <<nodeOpts, volOpts, ingOpts, started, live, dataHandlers,
                 finishHandlers, jsonEnded, pending>>

NodeData == Data("Node", NodeEvents)
NodeJoin == Data("Node", NodeJoinEvents)
VolumeData == Data("Volume", VolumeEvents)
VolumeSample == Data("Volume", VolumeSampleEvents)
IngressData == Data("Ingress", IngressEvents)

\* three volumes coming and going, each with one object for its whole life:
\* one without the host annotation, two annotated with the same host
LifecycleVolumes ==
  {VolumeObject(<<<<"a">>, <<"u1">>>>, EmptyDef, TRUE, <<"ns">>, EmptyDef),
   VolumeObject(<<<<"b", "/", "c">>, <<"u2">>>>, "kube-icinga/host" :> <<"h">>,
                TRUE, <<"ns">>, EmptyDef),
   VolumeObject(<<<<"d">>, <<"u4">>>>, "kube-icinga/host" :> <<"h">>,
                TRUE, <<"ns">>, EmptyDef)}

VolumeLifecycleEvents == [type : {"ADDED", "DELETED"}, object : LifecycleVolumes]

VolumeLifecycle == Data("Volume", VolumeLifecycleEvents)
IngressSample == Data("Ingress", IngressSampleEvents)

\* the source stream signals its end.  For Ingress the pipe ends jsonStream,
\* which emits 'finish' the first time only
Finish(k) ==
  /\ live[k]
  /\ LET emitted == (k # "Ingress") \/ ~jsonEnded
         n == IF emitted THEN finishHandlers[k] ELSE 0
     IN \E ok \in (IF n = 0 THEN {TRUE} ELSE BOOLEAN) :
          /\ SetLoopState(k, EmitFinish(k, [LoopState(k) EXCEPT !.live = FALSE],
                                        ok, n))
          /\ last' = Step(k, "finish", NoEvent, "none", 0, NoOutcome, n, n > 0 /\ ~ok)
  /\ jsonEnded' = (jsonEnded \/ k = "Ingress")
  /\ UNCHANGED <<nodeOpts, volOpts, ingOpts, nodes, started, delivered,
                 pending, monitoring>>

\* the source stream emits 'error': no listener is registered for it
StreamError(k) ==
  /\ live[k]
  /\ live' = [live EXCEPT ![k] = FALSE]
  /\ last' = Step(k, "error", NoEvent, "none", 0, NoOutcome, 0, FALSE)
  /\ UNCHANGED <<nodeOpts, volOpts, ingOpts, nodes, started, dataHandlers,
                 finishHandlers, jsonEnded, delivered, pending, monitoring>>

\* the facade calls a translation awaits: all but applyService, and all of
\* them are issued before the first applyService
Awaited(calls) == SelectSeq(calls, LAMBDA c : c.op # "applyService")

\* the 'data' listener translates an added or modified object up to the last
\* facade call it awaits before the services are applied (volume.ts:107, ingress.ts:92), and is suspended there;
\* no call rejects.  One translation is followed through its await at a time
Await(k, events) ==
  /\ live[k]
  /\ DispatchCount(k) = 1
  /\ pending.phase # "awaiting"
  /\ \E event \in events :
       /\ event.type \in {"ADDED", "MODIFIED"}
       /\ onData(k, event, getWorkerNodes, "none").caught = 0
       /\ Awaited(onData(k, event, getWorkerNodes, "none").calls) # <<>>
       /\ pending' = [phase |-> "awaiting", loop |-> k, event |-> event,
                      registry |-> getWorkerNodes]
       /\ monitoring' =
            Observe(monitoring,
                    Awaited(onData(k, event, getWorkerNodes, "none").calls), "none")
       /\ last' = Step(k, "await", event, "none", 1,
                       Outcome(nodes,
                               Awaited(onData(k, event, getWorkerNodes, "none").calls),
                               0, 0),
                       0, FALSE)
  /\ UNCHANGED <<nodeOpts, volOpts, ingOpts, nodes, started, live, dataHandlers,
                 finishHandlers, jsonEnded, delivered>>

\* the events followed through the await: a plain volume; a plain ingress and
\* one with TLS and three rule-path pairs
FanOutIngressEvents ==
  [type : {"ADDED", "MODIFIED"},
   object : {PlainIngress,
             IngressObject(TRUE, <<RuleDefaultPath, RuleTwoPaths>>, EmptyDef)}]

VolumeAwait == Await("Volume", VolumeSampleEvents)
IngressAwait == Await("Ingress", FanOutIngressEvents)

\* the awaited call has resolved: the rest of the translation runs to its end
\* without another await, reading getWorkerNodes() now.  The step records all
\* the calls of the translation, those before the await included
Resume ==
  /\ pending.phase = "awaiting"
  /\ last' = Step(pending.loop, "resume", pending.event, "none", 1,
                  onData(pending.loop, pending.event, getWorkerNodes, "none"),
                  0, FALSE)
  /\ monitoring' =
       Observe(monitoring,
               SelectSeq(onData(pending.loop, pending.event, getWorkerNodes,
                                "none").calls,
                         LAMBDA c : c.op = "applyService"),
               "none")
  /\ pending' = [pending EXCEPT !.phase = "resumed"]
  /\ UNCHANGED <<nodeOpts, volOpts, ingOpts, nodes, started, live, dataHandlers,
                 finishHandlers, jsonEnded, delivered>>

----------------------------------------------------------------------------
(* Specifications *)

InitLoops ==
  /\ nodes = <<>>
  /\ started = [k \in Kinds |-> FALSE]
  /\ live = [k \in Kinds |-> FALSE]
  /\ dataHandlers = [k \in Kinds |-> 0]
  /\ finishHandlers = [k \in Kinds |-> 0]
  /\ jsonEnded = FALSE
  /\ delivered = [n \in NodeNames |-> "none"]
  /\ pending = NoPending
  /\ last = Step("none", "init", NoEvent, "none", 0, NoOutcome, 0, FALSE)

\* the monitoring system is not looked at
InitState ==
  /\ InitLoops
  /\ monitoring = Unobserved

\* the three loops under the default options
Init ==
  /\ nodeOpts = NodeDefaultOptions
  /\ volOpts = VolumeDefaultOptions
  /\ ingOpts = IngressDefaultOptions
  /\ InitState

Next ==
  \/ \E k \in Kinds : Start(k)
  \/ NodeData
  \/ VolumeSample
  \/ IngressSample
  \/ \E k \in Kinds : Finish(k)
  \/ \E k \in Kinds : StreamError(k)

Spec == Init /\ [][Next]_vars

\* the Node loop under every Node option
InitNode ==
  /\ nodeOpts \in NodeOptionSets
  /\ volOpts = VolumeDefaultOptions
  /\ ingOpts = IngressDefaultOptions
  /\ InitState

NextNode ==
  \/ Start("Node")
  \/ NodeData
  \/ Finish("Node")
  \/ StreamError("Node")

SpecNode == InitNode /\ [][NextNode]_vars

\* the Volume loop under every Volume option, next to the Node loop
InitVolume ==
  /\ nodeOpts = NodeDefaultOptions
  /\ volOpts \in VolumeOptionSets
  /\ ingOpts = IngressDefaultOptions
  /\ InitState

NextVolume ==
  \/ Start("Node")
  \/ NodeJoin
  \/ Start("Volume")
  \/ VolumeData

SpecVolume == InitVolume /\ [][NextVolume]_vars

\* the Ingress loop under every Ingress option, next to the Node loop
InitIngress ==
  /\ nodeOpts = NodeDefaultOptions
  /\ volOpts = VolumeDefaultOptions
  /\ ingOpts \in IngressOptionSets
  /\ InitState

NextIngress ==
  \/ Start("Node")
  \/ NodeJoin
  \/ Start("Ingress")
  \/ IngressData

SpecIngress == InitIngress /\ [][NextIngress]_vars

\* the Volume and Ingress translations followed through their await, with
\* and without attachToNodes, while the Node loop runs
InitFanOut ==
  /\ nodeOpts = NodeDefaultOptions
  /\ volOpts \in {[VolumeDefaultOptions EXCEPT !.attachToNodes = a] : a \in BOOLEAN}
  /\ ingOpts \in {[IngressDefaultOptions EXCEPT !.attachToNodes = a] : a \in BOOLEAN}
  /\ InitState

NextFanOut ==
  \/ Start("Node")
  \/ NodeJoin
  \/ Start("Volume")
  \/ Start("Ingress")
  \/ VolumeAwait
  \/ IngressAwait
  \/ Resume

SpecFanOut == InitFanOut /\ [][NextFanOut]_vars

\* the Volume loop under every hostName and attachToNodes, next to the Node
\* loop, with the monitoring system behind the facade observed
InitMonitored ==
  /\ nodeOpts = NodeDefaultOptions
  /\ volOpts \in {[VolumeDefaultOptions EXCEPT !.hostName = h, !.attachToNodes = a] :
                    h \in {Null, <<"kubernetes-volumes">>}, a \in BOOLEAN}
  /\ ingOpts = IngressDefaultOptions
  /\ InitLoops
  /\ monitoring = EmptyMonitoring

NextMonitored ==
  \/ Start("Node")
  \/ NodeJoin
  \/ Start("Volume")
  \/ VolumeLifecycle

SpecMonitored == InitMonitored /\ [][NextMonitored]_vars

----------------------------------------------------------------------------
(* Properties *)

\* the last step ran the 'data' listener of loop k once on an object of k's kind
Handled(k, types) ==
  /\ last.loop = k
  /\ last.step = "data"
  /\ last.dispatches = 1
  /\ last.event.type \in types
  /\ last.event.object.kind = ObjectKind(k)

\* the indices of the facade calls of the last step with operation op
CallsOf(op) == {i \in DOMAIN last.calls : last.calls[i].op = op}

\* sub occurs in s as a contiguous run of tokens
Contains(s, sub) ==
  \E i \in 1..(Len(s) - Len(sub) + 1) : SubSeq(s, i, i + Len(sub) - 1) = sub

\* C1: every name in getWorkerNodes() belongs to a node whose most recently
\* delivered object is not unschedulable.
C1_RegistryHoldsNoUnschedulableNode ==
  \A i \in DOMAIN getWorkerNodes :
    delivered[getWorkerNodes[i]] # "unschedulable"

\* C2: for each loop, a step in which the stream signals its end calls the
\* provider factory once more, and, unless that call throws, the loop then
\* holds a stream whose events reach its 'data' listener.
C2_FinishRestartsDispatch ==
  last.step = "finish" =>
    /\ last.provCalls = 1
    /\ ~last.providerThrew =>
         (live[last.loop] /\ DispatchCount(last.loop) >= 1)

\* C3: a transport failure is recovered by a restart.  kubeListener leaves
\* nothing behind that runs later except its 'data' and 'finish' listeners, so
\* a restart has to happen in the failing step itself: after a step in which
\* the stream emitted an error or the provider factory threw, the loop holds
\* a stream.
C3_FailureRestarts ==
  (last.step = "error" \/ last.providerThrew) => live[last.loop]

\* C4: every event a stream emits is dispatched exactly once, also after
\* stream ends and restarts.
C4_DispatchedExactlyOnce ==
  last.step = "data" => last.dispatches = 1

\* C5: every rejection of a facade call issued while an event is handled is
\* caught and logged; none is left unhandled.
C5_NoUnhandledRejection ==
  last.step = "data" => last.unhandled = 0

\* C6: deleting a volume issues exactly one call: deleteServicesByFilter with
\* a filter containing the volume's uid when the configured hostName is not
\* null, deleteHost for the resolved hostname when it is null.
C6_VolumeDeletionKeyedOffOptions ==
  Handled("Volume", {"DELETED"}) =>
    /\ Len(last.calls) = 1
    /\ IF volOpts.hostName # Null
       THEN /\ last.calls[1].op = "deleteServicesByFilter"
            /\ Contains(last.calls[1].name, last.event.object.uid)
       ELSE /\ last.calls[1].op = "deleteHost"
            /\ last.calls[1].host = Volume_getHostname(last.event.object)

\* C6 happens: an annotated volume deleted from a pooling host by filter
C6_AnnotatedVolumeDeletedByFilter ==
  /\ Handled("Volume", {"DELETED"})
  /\ volOpts.hostName # Null
  /\ "kube-icinga/host" \in DOMAIN last.event.object.annotations
  /\ last.calls[1].op = "deleteServicesByFilter"

\* the options the last step's loop was constructed with
HostDefinitionOf(k) ==
  IF k = "Node" THEN nodeOpts.hostDefinition
  ELSE IF k = "Volume" THEN volOpts.hostDefinition
  ELSE ingOpts.hostDefinition

ServiceDefinitionOf(k) ==
  IF k = "Volume" THEN volOpts.serviceDefinition ELSE ingOpts.serviceDefinition

\* C7: in every applied host a field set in hostDefinition has that value; in
\* every applied service (HTTP and HTTPS alike) a field set by the per-object
\* override has the override's value, otherwise a field set in
\* serviceDefinition has that value.
C7_MergePrecedence ==
  last.step = "data" =>
    /\ \A i \in CallsOf("applyHost") :
         \A f \in DOMAIN HostDefinitionOf(last.loop) :
           last.calls[i].def[f] = HostDefinitionOf(last.loop)[f]
    /\ \A i \in CallsOf("applyService") :
         /\ \A f \in DOMAIN prepareResource(last.event.object) :
              last.calls[i].def[f] = prepareResource(last.event.object)[f]
         /\ \A f \in (DOMAIN ServiceDefinitionOf(last.loop))
                       \ (DOMAIN prepareResource(last.event.object)) :
              last.calls[i].def[f] = ServiceDefinitionOf(last.loop)[f]

\* the rule-path pairs of an ingress spec
RECURSIVE PairCount(_)
PairCount(rules) ==
  IF rules = <<>> THEN 0 ELSE Len(Head(rules).paths) + PairCount(Tail(rules))

\* the call's service name is <host>-<scheme>-<path>
Scheme(call) == call.name[Len(call.def["vars.http_vhost"]) + 2]

\* C8: with attachToNodes false and applyServices true, an added ingress with
\* k rule-path pairs gets one applyHost call and k applyService calls, all
\* 'http', without TLS, and 2k with TLS, k 'http' and k 'https'; no facade
\* call rejects here.
C8_IngressServiceFanOut ==
  ( /\ Handled("Ingress", {"ADDED"})
    /\ ~ingOpts.attachToNodes
    /\ ingOpts.applyServices
    /\ last.fail = "none" ) =>
    /\ Cardinality(CallsOf("applyHost")) = 1
    /\ Cardinality({i \in CallsOf("applyService") : Scheme(last.calls[i]) = "http"})
         = PairCount(last.event.object.rules)
    /\ Cardinality({i \in CallsOf("applyService") : Scheme(last.calls[i]) = "https"})
         = IF last.event.object.tls THEN PairCount(last.event.object.rules) ELSE 0
    /\ Cardinality(CallsOf("applyService"))
         = IF last.event.object.tls THEN 2 * PairCount(last.event.object.rules)
           ELSE PairCount(last.event.object.rules)

\* C9: the hostname a volume's host is applied under is the host annotation
\* if present, otherwise "volume-" + escapeName(name) if the configured
\* hostName is null, otherwise the configured hostName; never null or empty.
C9_VolumeHostnamePrecedence ==
  ( /\ Handled("Volume", {"ADDED", "MODIFIED"})
    /\ CallsOf("applyHost") # {} ) =>
    \A i \in CallsOf("applyHost") :
      /\ Truthy(last.calls[i].host)
      /\ last.calls[i].host =
           IF "kube-icinga/host" \in DOMAIN last.event.object.annotations
           THEN last.event.object.annotations["kube-icinga/host"]
           ELSE IF volOpts.hostName = Null
           THEN <<"volume", "-">> \o escapeName(last.event.object.name)
           ELSE volOpts.hostName

\* C10: with Node discovery enabled, once an ADDED event of a node that is
\* not unschedulable has been processed its name is in getWorkerNodes(), and
\* a name in getWorkerNodes() stays there in every later state.
C10_AddedWorkerStays ==
  [][ /\ \A i \in DOMAIN nodes : nodes[i] \in Range(nodes')
      /\ ( /\ nodeOpts.discover
           /\ last'.loop = "Node"
           /\ last'.step = "data"
           /\ last'.dispatches = 1
           /\ last'.event.type = "ADDED"
           /\ last'.event.object.kind = "Node"
           /\ ~last'.event.object.unschedulable )
         => last'.event.object.name \in Range(nodes') ]_vars

\* C10 happens: a worker is still registered after its node was deleted
C10_WorkerKeptAfterDelete ==
  /\ nodeOpts.discover
  /\ Handled("Node", {"DELETED"})
  /\ delivered[last.event.object.name] = "schedulable"
  /\ last.event.object.name \in Range(getWorkerNodes)

\* the discover option the last step's loop was constructed with
DiscoverOf(k) ==
  IF k = "Node" THEN nodeOpts.discover
  ELSE IF k = "Volume" THEN volOpts.discover
  ELSE ingOpts.discover

\* C11: when the discover option of a kind is false, processing an ADDED or
\* MODIFIED event of that kind issues no facade call and leaves the registry
\* as it was.
C11_DiscoverGatesEveryKind ==
  [][ ( /\ last'.step = "data"
        /\ last'.event.type \in {"ADDED", "MODIFIED"}
        /\ last'.event.object.kind = ObjectKind(last'.loop)
        /\ ~DiscoverOf(last'.loop) )
      => (last'.calls = <<>> /\ nodes' = nodes) ]_vars

\* C12: with Node discovery enabled, every Node ADDED and every Node MODIFIED
\* event delivered to the Node loop results in one applyHost call named after
\* the node, carrying the full object in vars.kubernetes, whether the node is
\* schedulable or not.
C12_NodeHostAppliedOnAddedAndModified ==
  ( /\ nodeOpts.discover
    /\ Handled("Node", {"ADDED", "MODIFIED"}) ) =>
    /\ Cardinality(CallsOf("applyHost")) = 1
    /\ \A i \in CallsOf("applyHost") :
         /\ last.calls[i].host = last.event.object.name
         /\ last.calls[i].def["check_command"] = <<"ping">>
         /\ last.calls[i].def["vars.kubernetes"] = last.event.object

ApplyOps == {"applyHost", "applyService", "applyServiceGroup"}

DeleteOps == {"deleteHost", "deleteServicesByFilter"}

\* the indices of the facade calls of the last step with an operation in ops
CallsIn(ops) == {i \in DOMAIN last.calls : last.calls[i].op \in ops}

\* C13: an Ingress ADDED event issues apply calls only; DELETED issues one
\* delete call and no apply call; MODIFIED issues one delete call, every apply
\* call comes after it, and none is issued when the delete call rejects; an
\* event whose object is not an Ingress issues no call.
C13_IngressDispatchByType ==
  (last.loop = "Ingress" /\ last.step = "data" /\ last.dispatches = 1) =>
    IF last.event.object.kind # "Ingress" THEN last.calls = <<>>
    ELSE
      /\ last.event.type = "ADDED" =>
           /\ CallsIn(DeleteOps) = {}
           /\ ~ingOpts.attachToNodes => CallsIn(ApplyOps) # {}
      /\ last.event.type = "DELETED" =>
           /\ Cardinality(CallsIn(DeleteOps)) = 1
           /\ CallsIn(ApplyOps) = {}
      /\ last.event.type = "MODIFIED" =>
           /\ CallsIn(DeleteOps) = {1}
           /\ last.fail = "deleteHost" => CallsIn(ApplyOps) = {}
           /\ (last.fail # "deleteHost" /\ ~ingOpts.attachToNodes)
                => CallsIn(ApplyOps) # {}

\* C13 happens: a modified ingress was deleted and then recreated with services
C13_ModifiedDeletedThenRecreated ==
  /\ Handled("Ingress", {"MODIFIED"})
  /\ last.calls[1].op = "deleteHost"
  /\ CallsOf("applyHost") # {}
  /\ CallsOf("applyService") # {}

AttachToNodesOf(k) ==
  IF k = "Volume" THEN volOpts.attachToNodes ELSE ingOpts.attachToNodes

\* the services applied in the last step, by name
ServiceNames == {last.calls[i].name : i \in CallsOf("applyService")}

\* the hosts the service called name was applied to in the last step, in order
HostsOf(name) ==
  LET applied ==
        SelectSeq(last.calls, LAMBDA c : c.op = "applyService" /\ c.name = name)
  IN [i \in DOMAIN applied |-> applied[i].host]

\* how many services the object of the last step has
ExpectedServices ==
  IF last.loop = "Volume" THEN 1
  ELSE IF last.event.object.tls THEN 2 * PairCount(last.event.object.rules)
  ELSE PairCount(last.event.object.rules)

\* C14: when a translation has run to its end, in attachToNodes mode it has
\* applied no host and each of its services once per entry of the registry as
\* it stands at the fan-out, in registry order, with host and host_name equal
\* to the entry, whatever the Node loop did while the translation was
\* suspended; without attachToNodes it has applied each service once, to the
\* one host it applied, which is no registry entry.
C14_FanOutOverCurrentRegistry ==
  last.step = "resume" =>
    /\ \A i \in CallsOf("applyService") :
         last.calls[i].def["host_name"] = last.calls[i].host
    /\ IF AttachToNodesOf(last.loop)
       THEN /\ CallsOf("applyHost") = {}
            /\ nodes # <<>> => Cardinality(ServiceNames) = ExpectedServices
            /\ \A name \in ServiceNames : HostsOf(name) = nodes
       ELSE /\ Cardinality(CallsOf("applyHost")) = 1
            /\ Cardinality(ServiceNames) = ExpectedServices
            /\ \A name \in ServiceNames :
                 /\ Len(HostsOf(name)) = 1
                 /\ \A i \in CallsOf("applyHost") :
                      HostsOf(name)[1] = last.calls[i].host
                 /\ HostsOf(name)[1] \notin Range(nodes)

\* C14 happens: a node joined while the translation was suspended, and the
\* fan-out reached it
C14_FanOutReachedLateNode ==
  /\ last.step = "resume"
  /\ AttachToNodesOf(last.loop)
  /\ Len(pending.registry) = 1
  /\ Len(nodes) = 2
  /\ Cardinality(CallsOf("applyService")) = 2 * ExpectedServices

IsPrefix(s, t) == Len(s) <= Len(t) /\ SubSeq(t, 1, Len(s)) = s

\* C15: in every step the registry's previous contents are a prefix of its
\* new contents, and it changes only in a step of the Node loop that
\* processes an ADDED event: not on Node MODIFIED or DELETED, and in no step of
\* the Volume or Ingress loop.
C15_RegistryAppendOnlySingleWriter ==
  [][ /\ IsPrefix(nodes, nodes')
      /\ nodes' # nodes =>
           /\ last'.loop = "Node"
           /\ last'.step = "data"
           /\ last'.event.type = "ADDED" ]_vars

\* C15 happens: a MODIFIED event of a schedulable node that is not registered
\* was processed next to a non-empty registry, and the node is still absent
C15_ModifiedNodeNotAppended ==
  /\ Handled("Node", {"MODIFIED"})
  /\ ~last.event.object.unschedulable
  /\ nodes # <<>>
  /\ last.event.object.name \notin Range(nodes)

\* C16: translating a Volume object that lacks metadata.name fails and issues
\* no applyHost, applyServiceGroup or applyService call, in every configuration
\* of hostName and attachToNodes.
C16_UnnamedVolumeAbandonedWithoutCalls ==
  ( /\ Handled("Volume", {"ADDED", "MODIFIED"})
    /\ volOpts.discover
    /\ ~Truthy(last.event.object.name) ) =>
    /\ last.caught = 1
    /\ CallsIn(ApplyOps) = {}

\* C17: for a named Volume translated with applyServices = true and no facade
\* call rejecting: without a claim namespace (claimRef absent, or present
\* without a namespace) the translation completes without error, issues no
\* applyServiceGroup call and applies the service with an empty groups list;
\* with a claim namespace, applyServiceGroup for it precedes every
\* applyService call and the groups list holds it.
C17_ServiceGroupOptional ==
  ( /\ Handled("Volume", {"ADDED", "MODIFIED"})
    /\ volOpts.discover
    /\ volOpts.applyServices
    /\ Truthy(last.event.object.name)
    /\ last.fail = "none" ) =>
    /\ last.caught = 0
    /\ ~volOpts.attachToNodes => Cardinality(CallsOf("applyService")) = 1
    /\ volOpts.attachToNodes => Cardinality(CallsOf("applyService")) = Len(nodes)
    /\ IF ~last.event.object.hasClaimRef
          \/ ~Truthy(last.event.object.claimNamespace)
       THEN /\ CallsOf("applyServiceGroup") = {}
            /\ \A i \in CallsOf("applyService") : last.calls[i].def["groups"] = <<>>
       ELSE /\ Cardinality(CallsOf("applyServiceGroup")) = 1
            /\ \A g \in CallsOf("applyServiceGroup") :
                 /\ last.calls[g].name = last.event.object.claimNamespace
                 /\ \A i \in CallsOf("applyService") : g < i
            /\ \A i \in CallsOf("applyService") :
                 last.calls[i].def["groups"] = <<last.event.object.claimNamespace>>

\* 'ingress-<namespace>-<name>', the host an ingress is applied under
IngressHostname(definition) ==
  escapeName(<<"ingress", "-">> \o definition.namespace \o <<"-">>
               \o definition.name)

\* C18: the host name passed to deleteHost when an Ingress MODIFIED or DELETED
\* event is processed is the synthesized 'ingress-<namespace>-<name>' name its
\* host is applied under, never another name such as the bare metadata.name.
C18_IngressDeletesTheHostItApplied ==
  Handled("Ingress", {"MODIFIED", "DELETED"}) =>
    \A i \in CallsOf("deleteHost") :
      last.calls[i].host = IngressHostname(last.event.object)

\* a host or a service of the monitoring system was applied for the volume
AppliedFor(uid) ==
  \/ \E h \in monitoring.hosts : h.uid = uid
  \/ \E sv \in monitoring.services : sv.uid = uid

\* C19: when the DELETED event of a Volume that was added before has been
\* processed and no call rejected, the monitoring system holds no service
\* recorded with that volume's uid, and every service and every host the step
\* removed was applied for that volume.
C19_VolumeDeletionLeavesNoStaleService ==
  [][ ( /\ last'.loop = "Volume"
        /\ last'.step = "data"
        /\ last'.dispatches = 1
        /\ last'.event.type = "DELETED"
        /\ last'.event.object.kind = "PersistentVolume"
        /\ last'.fail = "none"
        /\ AppliedFor(last'.event.object.uid) )
      => /\ \A sv \in monitoring'.services : sv.uid # last'.event.object.uid
         /\ \A sv \in monitoring.services \ monitoring'.services :
              sv.uid = last'.event.object.uid
         /\ \A h \in monitoring.hosts \ monitoring'.hosts :
              h.uid = last'.event.object.uid ]_vars

\* C20: each node name occurs at most once in getWorkerNodes().
C20_RegistryHoldsNoDuplicates ==
  \A i, j \in DOMAIN nodes : nodes[i] = nodes[j] => i = j

====
